---- MODULE Spec2Model ----
(***************************************************************************)
(* Model of the Coqui TTS API service: the model cache, the synthesis      *)
(* dispatcher with its file cache (src/src/tts_service.py), and the two    *)
(* cleanup sweeps (tts_service.py cleanup_old_files, main.py cleanup_task).*)
(*                                                                         *)
(* Strings are sequences of symbols, so that concatenation, length, strip  *)
(* and substring tests are computed as the code computes them.  An         *)
(* Optional[str] is <<>> for None and <<s>> for the string s.  md5 is      *)
(* taken to be collision free: a digest is represented by the string that  *)
(* was hashed.                                                             *)
(***************************************************************************)
EXTENDS Integers, Sequences, FiniteSets, TLC

VARIABLES
    now,         \* time.time(), in seconds
    outdir,      \* entries of settings.output_dir: records [name, kind, ctime]
    models,      \* TTSService.models: model key -> handle, 0 when absent
    built,       \* per model name, how many engine instances TTS(name) were built
    served,      \* history: requests that returned a path whose file still exists
    pc,          \* per thread, the statement it is at
    call,        \* per thread, the request it is running
    tts,         \* per thread, the local variable tts of load_model
    got,         \* per thread, what its call returned or raised
    synth_calls, \* per output file name, how many engine synthesis calls wrote it
    torch_load,  \* the function bound to torch.load (and warnings.warn): the
                 \* threads whose patches wrap the original, outermost first
    saved_load,  \* per thread, the locals original_load (and original_warn)
    timer        \* the cleanup thread: the statement it is at, and how its last
                 \* pass ended

vars == <<now, outdir, models, built, served, pc, call, tts, got, synth_calls,
          torch_load, saved_load, timer>>

seqVars == <<now, outdir, models, built, served>>
thrVars == <<pc, call, tts, got, synth_calls, torch_load, saved_load, timer>>

----------------------------------------------------------------------------
(* Bounds of the model *)

\* the clock advances in whole hours: up to ServiceHours of them in the
\* specification of the service, up to MaxHours in that of the sweeps
ServiceHours == 1

MaxHours == 2

\* number of request threads of the concurrent specification
NumThreads == 2

----------------------------------------------------------------------------
(* Strings and optional values *)

None == <<>>

Some(s) == <<s>>

\* str(x) inside an f-string: None is rendered as the text None
PyStr(opt) == IF opt = None THEN <<"None">> ELSE opt[1]

\* truthiness of an Optional[str]: None and the empty string are falsy
Truthy(opt) == opt # None /\ opt[1] # <<>>

Whitespace == {" "}

\* text.strip(): drop leading and trailing whitespace
RECURSIVE LStrip(_)
LStrip(s) == IF s # <<>> /\ Head(s) \in Whitespace THEN LStrip(Tail(s)) ELSE s

RECURSIVE RStrip(_)
RStrip(s) ==
    IF s # <<>> /\ s[Len(s)] \in Whitespace THEN RStrip(SubSeq(s, 1, Len(s) - 1)) ELSE s

Strip(s) == RStrip(LStrip(s))

\* str.lower() on the symbols that have an upper case form in the model
LowerSym(c) == IF c = "XTTS" THEN "xtts" ELSE c

Lower(s) == [i \in 1..Len(s) |-> LowerSym(s[i])]

\* "xtts" in model_name.lower()
IsXtts(model_name) == \E i \in 1..Len(model_name) : Lower(model_name)[i] = "xtts"

----------------------------------------------------------------------------
(* Settings (src/src/config.py) *)

max_text_length == 1000

default_model == <<"tts_models/multilingual/multi-dataset/", "xtts", "_v2">>

available_models ==
    { <<"tts_models/en/ljspeech/", "tacotron2-DDC">>,
      <<"tts_models/en/ljspeech/", "glow-tts">>,
      <<"tts_models/en/ljspeech/", "speedy-speech">>,
      <<"tts_models/en/ljspeech/", "tacotron2-DCA">>,
      <<"tts_models/en/ljspeech/", "vits">>,
      <<"tts_models/en/vctk/", "vits">>,
      <<"tts_models/en/vctk/", "fast_pitch">>,
      <<"tts_models/multilingual/multi-dataset/", "xtts", "_v2">>,
      <<"tts_models/multilingual/multi-dataset/", "your_tts">>,
      <<"tts_models/multilingual/multi-dataset/", "bark">>,
      <<"voice_conversion_models/multilingual/vctk/", "freevc24">> }

SecondsPerHour == 3600

\* the age threshold and the sleep of the background timer, in seconds
TimerAge == 3600

----------------------------------------------------------------------------
(* The engine (the Coqui TTS library) as the service sees it *)

\* a model the engine publishes but the allowlist does not name
EngineOnlyModel == <<"tts_models/en/ek1/", "tacotron2">>

\* a name neither the allowlist nor the engine knows
UnknownModel == <<"no/such/", "model">>

\* TTS().list_models()
EngineCatalog == available_models \cup {EngineOnlyModel}

\* what the engine does during one call of the service: list_models() and
\* TTS(name) succeed or raise; a synthesis call succeeds, raises before it
\* wrote anything, or raises after it wrote (part of) the output file
EngineOk == [list |-> TRUE, load |-> TRUE, synth |-> "ok"]

\* the engine works, or one of its calls raises
EngineFaults ==
    { EngineOk,
      [list |-> FALSE, load |-> TRUE, synth |-> "ok"],
      [list |-> TRUE, load |-> FALSE, synth |-> "ok"],
      [list |-> TRUE, load |-> TRUE, synth |-> "raise"] }

EngineBehaviours ==
    EngineFaults \cup { [list |-> TRUE, load |-> TRUE, synth |-> "raise_after_write"] }

\* TTS(model_name).to(device) returns an engine instead of raising
EngineConstructs(model_name, eng) == model_name \in EngineCatalog /\ eng.load

\* attributes of a loaded engine: tts.speakers / tts.languages are not None
HasSpeakers(model_name) ==
    model_name \in { <<"tts_models/en/vctk/", "vits">>,
                     <<"tts_models/en/vctk/", "fast_pitch">>,
                     <<"tts_models/multilingual/multi-dataset/", "your_tts">> }

HasLanguages(model_name) ==
    model_name \in { <<"tts_models/multilingual/multi-dataset/", "xtts", "_v2">>,
                     <<"tts_models/multilingual/multi-dataset/", "your_tts">> }

\* hasattr(tts, 'tts_to_file'): every engine of the library has it
HasTtsToFile(model_name) == TRUE

\* reference recordings that exist on disk
ExistingWavs == { <<"ref.wav">> }

\* os.path.exists(speaker_wav)
WavExists(path) == path \in ExistingWavs

----------------------------------------------------------------------------
(* The output directory *)

\* os.path.join(settings.output_dir, f"tts_{text_hash}.{output_format}")
FileName(base, ext) == [base |-> base, ext |-> ext]

Entry(name, kind, t) == [name |-> name, kind |-> kind, ctime |-> t]

\* os.path.exists(path) for a path inside the output directory
PathExists(dir, name) == \E f \in dir : f.name = name

\* the engine (or sf.write) writes the file at name: created or overwritten
WriteFile(dir, name, t) == {f \in dir : f.name # name} \cup {Entry(name, "file", t)}

\* os.path.exists(settings.output_dir): config.py creates it at import
OutputDirExists == TRUE

----------------------------------------------------------------------------
(* TTSService (src/src/tts_service.py) *)

\* the module-level flag; without it no TTSService object exists at all
TTS_AVAILABLE == TRUE

\* hashlib.md5(model_name.encode()).hexdigest()
_get_model_key(model_name) == model_name

\* a load_model that builds a new engine whether or not one is cached
load_model_rebuild(model_name, eng, mods, blt) ==
    LET model_key == _get_model_key(model_name) IN
    IF EngineConstructs(model_name, eng)
    THEN LET h == blt[model_key] + 1 IN
         [exc |-> "none", tts |-> h, constructs |-> 1,
          models |-> [mods EXCEPT ![model_key] = h],
          built |-> [blt EXCEPT ![model_key] = h]]
    ELSE [exc |-> "ValueError", tts |-> 0, constructs |-> 1,
          models |-> mods, built |-> blt]

\* load_model run to completion on the cache mods: the handle it returns or
\* the ValueError it raises, how many engines it built, and the cache after.
\* The xtts patches of torch.load are applied and undone inside the call.
load_model(model_name, eng, mods, blt) ==
    LET model_key == _get_model_key(model_name) IN
    IF mods[model_key] # 0
    THEN [exc |-> "none", tts |-> mods[model_key], constructs |-> 0,
          models |-> mods, built |-> blt]
    ELSE IF EngineConstructs(model_name, eng)
    THEN LET h == blt[model_key] + 1 IN
         [exc |-> "none", tts |-> h, constructs |-> 1,
          models |-> [mods EXCEPT ![model_key] = h],
          built |-> [blt EXCEPT ![model_key] = h]]
    ELSE [exc |-> "ValueError", tts |-> 0, constructs |-> 1,
          models |-> mods, built |-> blt]

\* get_available_models: the engine's list, or the allowlist when listing fails
get_available_models(eng) == IF eng.list THEN EngineCatalog ELSE available_models

NoInfo == [is_multi_speaker |-> FALSE, is_multi_lingual |-> FALSE]

\* get_model_info: loads the model, then reads the engine's attributes
get_model_info(model_name, eng, mods, blt) ==
    LET l == load_model(model_name, eng, mods, blt) IN
    IF l.exc # "none"
    THEN [exc |-> "ValueError", info |-> NoInfo, constructs |-> l.constructs,
          models |-> l.models, built |-> l.built]
    ELSE [exc |-> "none",
          info |-> [is_multi_speaker |-> HasSpeakers(model_name),
                    is_multi_lingual |-> HasLanguages(model_name)],
          constructs |-> l.constructs, models |-> l.models, built |-> l.built]

\* a length check that is off by one
TextTooLongOffByOne(text) == Len(text) > max_text_length + 1

\* len(text) > settings.max_text_length
TextTooLong(text) == Len(text) > max_text_length

\* not text.strip()
TextEmpty(text) == Strip(text) = <<>>

\* "Validate model": the ValueError raised for a name that is in neither list
\* is raised inside the try whose except clause logs and proceeds, so the
\* outcome is never a rejection
ModelValidation(model_name, eng) ==
    IF model_name \in available_models THEN "valid"
    ELSE IF model_name \in get_available_models(eng) THEN "valid"
    ELSE "proceed_unverified"

\* hashlib.md5(f"{text}{model_name}{speaker}{language}".encode()).hexdigest()
TextHash(text, model_name, speaker, language) ==
    text \o model_name \o PyStr(speaker) \o PyStr(language)

\* output_filename = f"tts_{text_hash}.{output_format}"
OutputFilename(text, model_name, speaker, language, output_format) ==
    FileName(<<"tts_">> \o TextHash(text, model_name, speaker, language), output_format)

\* model_name, with the default in place of None
ResolvedModel(model_name) == IF model_name = None THEN default_model ELSE model_name[1]

OutputPath(req) ==
    OutputFilename(req.text, ResolvedModel(req.model_name), req.speaker, req.language,
                   req.output_format)

NoCall == [kind |-> "none", speaker_wav |-> None, speaker |-> None, language |-> None]

\* a dispatcher that looks at the speaker id before the speaker reference
StrategySpeakerIdFirst(req, model_name, info) ==
    IF Truthy(req.speaker) /\ info.is_multi_speaker
    THEN [kind |-> "tts_to_file", speaker_wav |-> None, speaker |-> req.speaker,
          language |-> req.language]
    ELSE IF Truthy(req.speaker_wav)
    THEN IF ~WavExists(req.speaker_wav[1])
         THEN [NoCall EXCEPT !.kind = "missing_wav"]
         ELSE IF IsXtts(model_name)
         THEN [kind |-> "tts_to_file", speaker_wav |-> req.speaker_wav, speaker |-> None,
               language |-> IF Truthy(req.language) THEN req.language ELSE Some(<<"en">>)]
         ELSE [kind |-> "tts_with_vc_to_file", speaker_wav |-> req.speaker_wav,
               speaker |-> None, language |-> None]
    ELSE IF Truthy(req.language) /\ info.is_multi_lingual
    THEN [kind |-> "tts_to_file", speaker_wav |-> None, speaker |-> None,
          language |-> req.language]
    ELSE [kind |-> "tts_to_file", speaker_wav |-> None, speaker |-> None,
          language |-> None]

\* the engine call the dispatcher chooses on a cache miss, with its arguments;
\* kind "missing_wav" is the ValueError raised for an absent reference file
Strategy(req, model_name, info) ==
    IF Truthy(req.speaker_wav)
    THEN IF ~WavExists(req.speaker_wav[1])
         THEN [NoCall EXCEPT !.kind = "missing_wav"]
         ELSE IF IsXtts(model_name)
         THEN [kind |-> "tts_to_file", speaker_wav |-> req.speaker_wav, speaker |-> None,
               language |-> IF Truthy(req.language) THEN req.language ELSE Some(<<"en">>)]
         ELSE [kind |-> "tts_with_vc_to_file", speaker_wav |-> req.speaker_wav,
               speaker |-> None, language |-> None]
    ELSE IF Truthy(req.speaker) /\ info.is_multi_speaker
    THEN [kind |-> "tts_to_file", speaker_wav |-> None, speaker |-> req.speaker,
          language |-> req.language]
    ELSE IF HasTtsToFile(model_name)
    THEN IF Truthy(req.language) /\ info.is_multi_lingual
         THEN [kind |-> "tts_to_file", speaker_wav |-> None, speaker |-> None,
               language |-> req.language]
         ELSE [kind |-> "tts_to_file", speaker_wav |-> None, speaker |-> None,
               language |-> None]
    ELSE [NoCall EXCEPT !.kind = "tts"]

\* a dispatcher without the existence check
CacheHitNever(dir, output_path) == FALSE

\* "Check if file already exists (caching)"
CacheHit(dir, output_path) == PathExists(dir, output_path)

\* what a call of the service returns or raises, what it cost, and the state after
Outcome(exc, why, path, calls, constructs, strategy, dir, mods, blt) ==
    [exc |-> exc, why |-> why, path |-> path, calls |-> calls, constructs |-> constructs,
     strategy |-> strategy, outdir |-> dir, models |-> mods, built |-> blt]

NoPath == FileName(<<>>, "")

\* _synthesize_with_coqui run to completion at time t
_synthesize_with_coqui(req, eng, dir, mods, blt, t) ==
    LET model_name == ResolvedModel(req.model_name)
        validation == ModelValidation(model_name, eng)
        l == load_model(model_name, eng, mods, blt)
        output_path == OutputPath(req)
    IN
    IF l.exc # "none"
    THEN Outcome("ValueError", "load_failed", NoPath, 0, l.constructs, NoCall,
                 dir, l.models, l.built)
    ELSE IF CacheHit(dir, output_path)
    THEN Outcome("none", "cache_hit", output_path, 0, l.constructs, NoCall,
                 dir, l.models, l.built)
    ELSE
    LET i == get_model_info(model_name, eng, l.models, l.built)
        s == Strategy(req, model_name, i.info)
        c == l.constructs + i.constructs
    IN
    IF i.exc # "none"
    THEN Outcome("ValueError", "synthesis_failed", NoPath, 0, c, NoCall,
                 dir, i.models, i.built)
    ELSE IF s.kind = "missing_wav"
    THEN Outcome("ValueError", "synthesis_failed", NoPath, 0, c, s,
                 dir, i.models, i.built)
    ELSE IF eng.synth = "ok"
    THEN Outcome("none", "synthesized", output_path, 1, c, s,
                 WriteFile(dir, output_path, t), i.models, i.built)
    ELSE IF eng.synth = "raise_after_write"
    THEN Outcome("ValueError", "synthesis_failed", NoPath, 1, c, s,
                 WriteFile(dir, output_path, t), i.models, i.built)
    ELSE Outcome("ValueError", "synthesis_failed", NoPath, 1, c, s,
                 dir, i.models, i.built)

\* synthesize_speech run to completion at time t
synthesize_speech(req, eng, dir, mods, blt, t) ==
    IF TextTooLong(req.text)
    THEN Outcome("ValueError", "text_too_long", NoPath, 0, 0, NoCall, dir, mods, blt)
    ELSE IF TextEmpty(req.text)
    THEN Outcome("ValueError", "text_empty", NoPath, 0, 0, NoCall, dir, mods, blt)
    ELSE IF ~TTS_AVAILABLE
    THEN Outcome("ValueError", "unavailable", NoPath, 0, 0, NoCall, dir, mods, blt)
    ELSE _synthesize_with_coqui(req, eng, dir, mods, blt, t)

----------------------------------------------------------------------------
(* HTTP handlers (src/src/main.py) *)

\* a handler whose generic except clause catches the ValueError first
http_get_model_info_500(model_name, eng, mods, blt) ==
    LET r == get_model_info(model_name, eng, mods, blt) IN
    [status |-> IF r.exc = "none" THEN 200 ELSE 500, info |-> r.info,
     constructs |-> r.constructs, models |-> r.models, built |-> r.built]

\* GET /models/{model_name}: 400 for the service's ValueError
http_get_model_info(model_name, eng, mods, blt) ==
    LET r == get_model_info(model_name, eng, mods, blt) IN
    [status |-> IF r.exc = "none" THEN 200 ELSE 400, info |-> r.info,
     constructs |-> r.constructs, models |-> r.models, built |-> r.built]

\* os.path.exists(harvard_wav_path): the bundled reference recording
HarvardWav == <<"ref.wav">>

\* POST /tts run to completion.  temp is what became of the request's
\* temporary directory: never created, removed (by the except clauses, or by
\* the background task once the response is sent), or left behind
voice_clone_tts(text, model_name, language, eng, mods, blt) ==
    LET l == load_model(model_name, eng, mods, blt) IN
    IF ~TTS_AVAILABLE
    THEN [status |-> 503, temp |-> "never_created", calls |-> 0, constructs |-> 0,
          models |-> mods, built |-> blt]
    ELSE IF TextTooLong(text)
    THEN [status |-> 400, temp |-> "never_created", calls |-> 0, constructs |-> 0,
          models |-> mods, built |-> blt]
    ELSE IF ~WavExists(HarvardWav)
    THEN [status |-> 500, temp |-> "never_created", calls |-> 0, constructs |-> 0,
          models |-> mods, built |-> blt]
    ELSE IF l.exc # "none"
    THEN [status |-> 400, temp |-> "removed", calls |-> 0, constructs |-> l.constructs,
          models |-> l.models, built |-> l.built]
    ELSE IF eng.synth # "ok"
    THEN [status |-> 500, temp |-> "removed", calls |-> 1, constructs |-> l.constructs,
          models |-> l.models, built |-> l.built]
    ELSE [status |-> 200, temp |-> "removed", calls |-> 1, constructs |-> l.constructs,
          models |-> l.models, built |-> l.built]

----------------------------------------------------------------------------
(* The cleanup sweeps *)

\* an OSError during a sweep: os.path.getctime or os.remove fails on one file
NoFault == [op |-> "none", name |-> FileName(<<>>, "")]

Faults(dir) == {NoFault} \cup [op : {"getctime", "remove"}, name : {f.name : f \in dir}]

\* a sweep that compares with >= instead of >
CleanupRemovesInclusive(max_age_hours, fault, dir, t) ==
    { f \in dir :
        /\ f.kind = "file"
        /\ ~(fault.op = "getctime" /\ fault.name = f.name)
        /\ t - f.ctime >= max_age_hours * SecondsPerHour
        /\ ~(fault.op = "remove" /\ fault.name = f.name) }

\* the entries one call of cleanup_old_files(max_age_hours) removes at time t
CleanupRemoves(max_age_hours, fault, dir, t) ==
    { f \in dir :
        /\ f.kind = "file"
        /\ ~(fault.op = "getctime" /\ fault.name = f.name)
        /\ t - f.ctime > max_age_hours * SecondsPerHour
        /\ ~(fault.op = "remove" /\ fault.name = f.name) }

\* TTSService.cleanup_old_files: the directory after the sweep
cleanup_old_files(max_age_hours, fault, dir, t) ==
    IF ~OutputDirExists THEN dir ELSE dir \ CleanupRemoves(max_age_hours, fault, dir, t)

\* DELETE /cleanup
cleanup_files(max_age_hours, fault, dir, t) ==
    IF ~TTS_AVAILABLE
    THEN [status |-> 503, outdir |-> dir]
    ELSE [status |-> 200, outdir |-> cleanup_old_files(max_age_hours, fault, dir, t)]

\* filename.endswith('.wav')
EndsWithWav(name) == name.ext = "wav"

\* the file on which one pass of cleanup_task stats: the pass calls
\* os.path.getctime outside its inner try, so a failure there ends the pass
TimerAborts(fault, dir) ==
    /\ fault.op = "getctime"
    /\ \E f \in dir : f.name = fault.name /\ EndsWithWav(f.name) /\ f.kind = "file"

\* the entries one pass of cleanup_task removes at time t; before is the set
\* of names os.listdir yielded ahead of the file whose stat failed
TimerRemoves(fault, before, dir, t) ==
    { f \in dir :
        /\ EndsWithWav(f.name)
        /\ f.kind = "file"
        /\ TimerAborts(fault, dir) => f.name \in before
        /\ t - f.ctime > TimerAge
        /\ ~(fault.op = "remove" /\ fault.name = f.name) }

\* one pass of start_cleanup_scheduler.cleanup_task, after its sleep
cleanup_task(fault, before, dir, t) ==
    IF OutputDirExists /\ TTS_AVAILABLE THEN dir \ TimerRemoves(fault, before, dir, t) ELSE dir

\* an OSError of os.listdir, next to those of os.path.getctime and os.remove
ListFault == [op |-> "listdir", name |-> FileName(<<>>, "")]

TimerFaults(dir) == Faults(dir) \cup {ListFault}

\* the pass raises into the except clause of cleanup_task's outer try
TimerRaises(fault, dir) == fault.op = "listdir" \/ TimerAborts(fault, dir)

\* a cleanup_task whose try encloses the loop: an exception leaves the loop
AfterPassEscaping(raised) ==
    IF raised THEN [at |-> "terminated", last |-> "raised"]
    ELSE [at |-> "sleeping", last |-> "ok"]

\* where cleanup_task goes after a pass: the try is inside while True, so the
\* except clause logs and the loop goes on to its next sleep
AfterPass(raised) ==
    [at |-> "sleeping", last |-> IF raised THEN "raised" ELSE "ok"]

----------------------------------------------------------------------------
(* Inputs *)

Threads == 1..NumThreads

LongText == [i \in 1..(max_text_length + 1) |-> "a"]

Texts == { <<"h", "i">>, <<" ">>, LongText }

ModelNames == { default_model, EngineOnlyModel, UnknownModel }

Formats == { "wav", "mp3" }

Requests ==
    [ text : Texts,
      model_name : {None} \cup {Some(m) : m \in ModelNames},
      speaker : {None},
      speaker_wav : {None, Some(<<"ref.wav">>), Some(<<"missing.wav">>)},
      language : {Some(<<"en">>)},
      output_format : Formats ]

\* an entry of the output directory that no request wrote
ForeignDir == Entry(FileName(<<"old">>, ""), "dir", 0)

Hours == 0..MaxHours

\* the requests that fill the output directory in the specification of the sweeps
SweepRequests ==
    [ text : {<<"h", "i">>},
      model_name : {None, Some(EngineOnlyModel)},
      speaker : {None},
      speaker_wav : {None},
      language : {Some(<<"en">>)},
      output_format : Formats ]

\* the requests that fill the output directory next to the cleanup thread
TimerRequests ==
    [ text : {<<"h", "i">>},
      model_name : {None},
      speaker : {None},
      speaker_wav : {None},
      language : {Some(<<"en">>)},
      output_format : Formats ]

\* the (text, model, speaker, language) of a request
Key4(req) == <<req.text, req.model_name, req.speaker, req.language>>

\* the calls the threads of the concurrent specification make
ConcRequests ==
    [ text : {<<"h", "i">>},
      model_name : {None, Some(EngineOnlyModel)},
      speaker : {None},
      speaker_wav : {None},
      language : {Some(<<"en">>)},
      output_format : {"wav"} ]

NoRequest == [ text |-> <<>>, model_name |-> None, speaker |-> None,
               speaker_wav |-> None, language |-> None, output_format |-> "" ]

ConcCalls ==
    { [op |-> "load_model", model_name |-> m, req |-> NoRequest] :
         m \in {default_model, EngineOnlyModel} }
    \cup { [op |-> "synthesize", model_name |-> ResolvedModel(r.model_name), req |-> r] :
              r \in ConcRequests }

NoCallYet == [op |-> "none", model_name |-> <<>>, req |-> NoRequest]

ConcNames == { OutputPath(r) : r \in ConcRequests }

Pending == [exc |-> "pending", tts |-> 0, path |-> FileName(<<>>, "")]

StillThere(hist, dir) == {h \in hist : PathExists(dir, h.path)}

\* the models of the specification of the dispatcher: with named speakers,
\* with named speakers and languages, with languages only, with neither
VctkVits == <<"tts_models/en/vctk/", "vits">>

YourTts == <<"tts_models/multilingual/multi-dataset/", "your_tts">>

DispatchModels == { VctkVits, YourTts, default_model, EngineOnlyModel }

\* every name the model cache is asked for
CachedNames == ModelNames \cup DispatchModels

\* the requests the dispatcher is judged on: each optional argument absent,
\* empty and present
DispatchRequests ==
    [ text : {<<"h", "i">>},
      model_name : {Some(m) : m \in DispatchModels},
      speaker : {None, Some(<<>>), Some(<<"p225">>)},
      speaker_wav : {None, Some(<<>>), Some(<<"ref.wav">>), Some(<<"missing.wav">>)},
      language : {None, Some(<<>>), Some(<<"de">>)},
      output_format : {"wav"} ]

\* the requests that are made in the specification of the dispatcher
DispatchCalls ==
    { r \in DispatchRequests :
        /\ r.model_name \in {Some(VctkVits), Some(YourTts), Some(default_model)}
        /\ r.speaker \in {None, Some(<<"p225">>)}
        /\ r.speaker_wav \in {None, Some(<<"ref.wav">>)}
        /\ r.model_name = Some(YourTts) => (r.speaker # None /\ r.speaker_wav = None)
        /\ r.language = Some(<<"de">>) }

----------------------------------------------------------------------------
(* The service, one call at a time *)

Init ==
    /\ now = 0
    /\ outdir = {}
    /\ models = [m \in CachedNames |-> 0]
    /\ built = [m \in CachedNames |-> 0]
    /\ served = {}
    /\ pc = [p \in Threads |-> "idle"]
    /\ call = [p \in Threads |-> NoCallYet]
    /\ tts = [p \in Threads |-> 0]
    /\ got = [p \in Threads |-> Pending]
    /\ synth_calls = [n \in ConcNames |-> 0]
    /\ torch_load = <<>>
    /\ saved_load = [p \in Threads |-> <<>>]
    /\ timer = [at |-> "sleeping", last |-> "none"]

\* a caller runs synthesize_speech(req)
Synthesize(req, eng) ==
    LET r == synthesize_speech(req, eng, outdir, models, built, now) IN
    /\ outdir' = r.outdir
    /\ models' = r.models
    /\ built' = r.built
    /\ served' = StillThere(
           IF r.exc = "none"
           THEN served \cup {[key |-> Key4(req), output_format |-> req.output_format,
                               path |-> r.path]}
           ELSE served, r.outdir)
    /\ UNCHANGED <<now, thrVars>>

\* a caller runs load_model(model_name)
LoadModel(model_name, eng) ==
    LET r == load_model(model_name, eng, models, built) IN
    /\ models' = r.models
    /\ built' = r.built
    /\ UNCHANGED <<now, outdir, served, thrVars>>

\* GET /models/{model_name}
GetModelInfo(model_name, eng) ==
    LET r == http_get_model_info(model_name, eng, models, built) IN
    /\ models' = r.models
    /\ built' = r.built
    /\ UNCHANGED <<now, outdir, served, thrVars>>

\* POST /tts
PostTts(text, model_name, eng) ==
    LET r == voice_clone_tts(text, model_name, Some(<<"en">>), eng, models, built) IN
    /\ models' = r.models
    /\ built' = r.built
    /\ UNCHANGED <<now, outdir, served, thrVars>>

\* DELETE /cleanup?max_age_hours=h
Cleanup(max_age_hours, fault) ==
    LET r == cleanup_files(max_age_hours, fault, outdir, now) IN
    /\ outdir' = r.outdir
    /\ served' = StillThere(served, r.outdir)
    /\ UNCHANGED <<now, models, built, thrVars>>

\* the background timer wakes up and sweeps
TimerPass(fault, before) ==
    /\ outdir' = cleanup_task(fault, before, outdir, now)
    /\ served' = StillThere(served, outdir')
    /\ UNCHANGED <<now, models, built, thrVars>>

\* an hour passes
Tick(limit) ==
    /\ now < limit * SecondsPerHour
    /\ now' = now + SecondsPerHour
    /\ UNCHANGED <<outdir, models, built, served, thrVars>>

\* somebody creates a subdirectory in the output directory
Mkdir ==
    /\ ~PathExists(outdir, ForeignDir.name)
    /\ outdir' = outdir \cup {[ForeignDir EXCEPT !.ctime = now]}
    /\ UNCHANGED <<now, models, built, served, thrVars>>

Next ==
    \/ \E req \in Requests, eng \in EngineFaults : Synthesize(req, eng)
    \/ \E m \in ModelNames, eng \in EngineFaults : LoadModel(m, eng)
    \/ \E m \in ModelNames, eng \in EngineFaults : GetModelInfo(m, eng)
    \/ \E text \in Texts, m \in ModelNames, eng \in EngineFaults : PostTts(text, m, eng)
    \/ \E h \in 0..ServiceHours : Cleanup(h, NoFault)
    \/ TimerPass(NoFault, {})
    \/ Tick(ServiceHours)

Spec == Init /\ [][Next]_vars

----------------------------------------------------------------------------
(* The sweeps, with failing stats and deletes, on a directory that requests,
   the clock and other users of the directory fill *)

NextSweep ==
    \/ \E req \in SweepRequests : Synthesize(req, EngineOk)
    \/ \E h \in Hours, fault \in Faults(outdir) : Cleanup(h, fault)
    \/ \E fault \in Faults(outdir), before \in SUBSET {f.name : f \in outdir} :
          TimerPass(fault, before)
    \/ Tick(MaxHours)
    \/ Mkdir

SpecSweep == Init /\ [][NextSweep]_vars

----------------------------------------------------------------------------
(* The dispatcher, on requests with and without a speaker id and a speaker
   reference, for models with and without named speakers *)

NextDispatch ==
    \/ \E req \in DispatchCalls, eng \in {EngineOk} : Synthesize(req, eng)
    \/ Cleanup(0, NoFault)
    \/ Tick(ServiceHours)

SpecDispatch == Init /\ [][NextDispatch]_vars

----------------------------------------------------------------------------
(* Requests against an engine that may raise before or after it wrote (part
   of) the output file *)

NextFail ==
    \/ \E req \in SweepRequests, eng \in EngineBehaviours : Synthesize(req, eng)
    \/ \E text \in Texts, eng \in EngineBehaviours : PostTts(text, default_model, eng)
    \/ Cleanup(0, NoFault)
    \/ Tick(ServiceHours)

SpecFail == Init /\ [][NextFail]_vars

----------------------------------------------------------------------------
(* The cleanup thread, statement by statement, next to requests that fill the
   output directory *)

\* time.sleep(3600) returns: an hour has passed (the clock stops at limit)
TimerWake(limit) ==
    /\ timer.at = "sleeping"
    /\ timer' = [timer EXCEPT !.at = "sweeping"]
    /\ now' = IF now < limit * SecondsPerHour THEN now + SecondsPerHour ELSE now
    /\ UNCHANGED <<outdir, models, built, served, pc, call, tts, got, synth_calls,
                   torch_load, saved_load>>

\* the body of the loop after the sleep: the pass over the directory, ended
\* by the end of the listing or by an exception
TimerSweep(fault, before) ==
    /\ timer.at = "sweeping"
    /\ outdir' = IF fault.op = "listdir" THEN outdir
                 ELSE cleanup_task(fault, before, outdir, now)
    /\ served' = StillThere(served, outdir')
    /\ timer' = AfterPass(TimerRaises(fault, outdir))
    /\ UNCHANGED <<now, models, built, pc, call, tts, got, synth_calls, torch_load,
                   saved_load>>

NextTimer ==
    \/ \E req \in TimerRequests : Synthesize(req, EngineOk)
    \/ TimerWake(MaxHours)
    \/ \E fault \in TimerFaults(outdir), before \in SUBSET {f.name : f \in outdir} :
          TimerSweep(fault, before)
    \/ Mkdir

SpecTimer == Init /\ [][NextTimer]_vars

\* the thread is scheduled: a sleep that can return does, a pass that can
\* end does
FairTimer ==
    /\ WF_vars(TimerWake(MaxHours))
    /\ WF_vars(\E fault \in TimerFaults(outdir), before \in SUBSET {f.name : f \in outdir} :
                  TimerSweep(fault, before))

SpecTimerLive == SpecTimer /\ FairTimer

----------------------------------------------------------------------------
(* Request threads: each runs one call of the service, statement by statement *)

\* thread p starts load_model(m) or synthesize_speech(req)
Begin(p, c) ==
    /\ pc[p] = "idle"
    /\ call' = [call EXCEPT ![p] = c]
    /\ pc' = [pc EXCEPT ![p] = IF c.op = "load_model" THEN "load_check" ELSE "syn_validate"]
    /\ UNCHANGED <<timer, seqVars, tts, got, synth_calls, torch_load, saved_load>>

\* synthesize_speech's checks of the text, and "Validate model"
SynValidate(p) ==
    /\ pc[p] = "syn_validate"
    /\ IF TextTooLong(call[p].req.text) \/ TextEmpty(call[p].req.text) \/ ~TTS_AVAILABLE
       THEN /\ pc' = [pc EXCEPT ![p] = "done"]
            /\ got' = [got EXCEPT ![p] = [Pending EXCEPT !.exc = "ValueError"]]
       ELSE /\ pc' = [pc EXCEPT ![p] = "load_check"]
            /\ got' = got
    /\ UNCHANGED <<timer, seqVars, call, tts, synth_calls, torch_load, saved_load>>

\* if model_key not in self.models
LoadCheck(p) ==
    /\ pc[p] = "load_check"
    /\ pc' = [pc EXCEPT ![p] =
                IF models[_get_model_key(call[p].model_name)] # 0 THEN "load_return"
                ELSE IF IsXtts(call[p].model_name) THEN "load_patch"
                ELSE "load_build"]
    /\ UNCHANGED <<timer, seqVars, call, tts, got, synth_calls, torch_load, saved_load>>

\* original_load = torch.load; torch.load = patched_load (likewise warnings.warn)
LoadPatch(p) ==
    /\ pc[p] = "load_patch"
    /\ saved_load' = [saved_load EXCEPT ![p] = torch_load]
    /\ torch_load' = <<p>> \o torch_load
    /\ pc' = [pc EXCEPT ![p] = "load_build"]
    /\ UNCHANGED <<timer, seqVars, call, tts, got, synth_calls>>

\* tts = TTS(model_name).to(self.device): a new engine, or an exception
LoadBuild(p, eng) ==
    /\ pc[p] = "load_build"
    /\ IF EngineConstructs(call[p].model_name, eng)
       THEN /\ built' = [built EXCEPT ![call[p].model_name] = @ + 1]
            /\ tts' = [tts EXCEPT ![p] = built[call[p].model_name] + 1]
            /\ pc' = [pc EXCEPT ![p] =
                        IF IsXtts(call[p].model_name) THEN "load_restore" ELSE "load_store"]
       ELSE /\ built' = built
            /\ tts' = [tts EXCEPT ![p] = 0]
            /\ pc' = [pc EXCEPT ![p] =
                        IF IsXtts(call[p].model_name) THEN "load_restore" ELSE "load_raise"]
    /\ UNCHANGED <<timer, now, outdir, models, served, call, got, synth_calls, torch_load,
                   saved_load>>

\* finally: torch.load = original_load (likewise warnings.warn)
LoadRestore(p) ==
    /\ pc[p] = "load_restore"
    /\ torch_load' = saved_load[p]
    /\ pc' = [pc EXCEPT ![p] = IF tts[p] # 0 THEN "load_store" ELSE "load_raise"]
    /\ UNCHANGED <<timer, seqVars, call, tts, got, synth_calls, saved_load>>

\* self.models[model_key] = tts
LoadStore(p) ==
    /\ pc[p] = "load_store"
    /\ models' = [models EXCEPT ![_get_model_key(call[p].model_name)] = tts[p]]
    /\ pc' = [pc EXCEPT ![p] = "load_return"]
    /\ UNCHANGED <<timer, now, outdir, built, served, call, tts, got, synth_calls, torch_load,
                   saved_load>>

\* raise ValueError(f"Failed to load model ...")
LoadRaise(p) ==
    /\ pc[p] = "load_raise"
    /\ pc' = [pc EXCEPT ![p] = "done"]
    /\ got' = [got EXCEPT ![p] = [Pending EXCEPT !.exc = "ValueError"]]
    /\ UNCHANGED <<timer, seqVars, call, tts, synth_calls, torch_load, saved_load>>

\* return self.models[model_key]
LoadReturn(p) ==
    /\ pc[p] = "load_return"
    /\ tts' = [tts EXCEPT ![p] = models[_get_model_key(call[p].model_name)]]
    /\ IF call[p].op = "load_model"
       THEN /\ pc' = [pc EXCEPT ![p] = "done"]
            /\ got' = [got EXCEPT ![p] =
                         [exc |-> "none",
                          tts |-> models[_get_model_key(call[p].model_name)],
                          path |-> Pending.path]]
       ELSE /\ pc' = [pc EXCEPT ![p] = "syn_exists"]
            /\ got' = got
    /\ UNCHANGED <<timer, seqVars, call, synth_calls, torch_load, saved_load>>

\* if os.path.exists(output_path): return output_path
SynExists(p) ==
    /\ pc[p] = "syn_exists"
    /\ IF CacheHit(outdir, OutputPath(call[p].req))
       THEN /\ pc' = [pc EXCEPT ![p] = "done"]
            /\ got' = [got EXCEPT ![p] =
                         [exc |-> "none", tts |-> tts[p], path |-> OutputPath(call[p].req)]]
       ELSE /\ pc' = [pc EXCEPT ![p] = "syn_call"]
            /\ got' = got
    /\ UNCHANGED <<timer, seqVars, call, tts, synth_calls, torch_load, saved_load>>

\* model_info = self.get_model_info(model_name), then the engine call the
\* dispatcher chooses, which writes the output file
SynCall(p, eng) ==
    LET req == call[p].req
        i == get_model_info(call[p].model_name, eng, models, built)
        s == Strategy(req, call[p].model_name, i.info)
        failed == i.exc # "none" \/ s.kind = "missing_wav"
    IN
    /\ pc[p] = "syn_call"
    /\ models' = i.models
    /\ built' = i.built
    /\ pc' = [pc EXCEPT ![p] = "done"]
    /\ IF failed
       THEN /\ got' = [got EXCEPT ![p] = [Pending EXCEPT !.exc = "ValueError"]]
            /\ UNCHANGED <<outdir, synth_calls>>
       ELSE /\ synth_calls' = [synth_calls EXCEPT ![OutputPath(req)] = @ + 1]
            /\ outdir' = IF eng.synth = "raise" THEN outdir
                         ELSE WriteFile(outdir, OutputPath(req), now)
            /\ got' = [got EXCEPT ![p] =
                         IF eng.synth = "ok"
                         THEN [exc |-> "none", tts |-> tts[p], path |-> OutputPath(req)]
                         ELSE [Pending EXCEPT !.exc = "ValueError"]]
    /\ UNCHANGED <<timer, now, served, call, tts, torch_load, saved_load>>

NextConc ==
    \E p \in Threads :
        \/ \E c \in ConcCalls : Begin(p, c)
        \/ SynValidate(p)
        \/ LoadCheck(p)
        \/ LoadPatch(p)
        \/ \E eng \in EngineFaults : LoadBuild(p, eng)
        \/ LoadRestore(p)
        \/ LoadStore(p)
        \/ LoadRaise(p)
        \/ LoadReturn(p)
        \/ SynExists(p)
        \/ \E eng \in EngineFaults : SynCall(p, eng)

SpecConc == Init /\ [][NextConc]_vars

----------------------------------------------------------------------------
(* Properties *)

\* the outcome of synthesize_speech(req) in the current state
Synth(req, eng) == synthesize_speech(req, eng, outdir, models, built, now)

\* C1 as stated: after a call with (text, model, speaker, language) returned
\* a path that no sweep has deleted, every call with the same four values
\* returns that path and makes no engine synthesis call.
C1_SameKeySamePath ==
    \A h \in served : \A req \in Requests, eng \in EngineBehaviours :
        Key4(req) = h.key =>
            /\ Synth(req, eng).exc = "none"
            /\ Synth(req, eng).path = h.path
            /\ Synth(req, eng).calls = 0

\* C1 amended: after a call with (text, model, speaker, language,
\* output_format) returned a path that no sweep has deleted, every call with
\* the same five values returns that path and makes no engine synthesis call.
C1_RepeatIsCacheHit ==
    \A h \in served : \A req \in Requests, eng \in EngineBehaviours :
        (Key4(req) = h.key /\ req.output_format = h.output_format) =>
            /\ Synth(req, eng).exc = "none"
            /\ Synth(req, eng).path = h.path
            /\ Synth(req, eng).calls = 0

\* a first call has returned, its file has aged an hour, and the repeat hits
C1_RepeatWitness ==
    \E h \in served, req \in Requests :
        /\ Key4(req) = h.key
        /\ req.output_format = h.output_format
        /\ \E f \in outdir : f.name = h.path /\ now > f.ctime
        /\ Synth(req, EngineOk).why = "cache_hit"

\* C4: a call whose speaker reference file does not exist raises ValueError
\* without having built an engine or made a synthesis call, whatever the
\* output directory holds.
C4_MissingWavRejectedFirst ==
    \A req \in Requests, eng \in EngineBehaviours :
        (Truthy(req.speaker_wav) /\ ~WavExists(req.speaker_wav[1])) =>
            /\ Synth(req, eng).exc = "ValueError"
            /\ Synth(req, eng).calls = 0
            /\ Synth(req, eng).constructs = 0
            /\ Synth(req, eng).models = models

\* C5: a call naming a model that is neither in the allowlist nor in the
\* engine's list raises ValueError without load_model trying to build it.
C5_UnknownModelRejectedFirst ==
    \A req \in Requests, eng \in EngineBehaviours :
        ( /\ Len(req.text) <= max_text_length
          /\ Strip(req.text) # <<>>
          /\ ResolvedModel(req.model_name) \notin available_models
          /\ ResolvedModel(req.model_name) \notin EngineCatalog ) =>
            /\ Synth(req, eng).exc = "ValueError"
            /\ Synth(req, eng).constructs = 0

\* C6 as stated: GET /models/{name} answers 400 for every name outside the
\* allowlist, whether or not the engine can load it.
C6_NotAllowlistedIs400 ==
    \A m \in ModelNames \ available_models, eng \in EngineBehaviours :
        http_get_model_info(m, eng, models, built).status = 400

\* C6 amended: for a name outside the allowlist, GET /models/{name} answers
\* 400, returns no information and leaves the cache alone exactly when the
\* model is not cached and the engine fails to load it; otherwise it answers
\* 200 with the model's information.
C6_UnloadableIs400 ==
    \A m \in ModelNames \ available_models, eng \in EngineBehaviours :
        LET r == http_get_model_info(m, eng, models, built) IN
        /\ r.status \in {200, 400}
        /\ r.status = 400 <=> (models[m] = 0 /\ ~EngineConstructs(m, eng))
        /\ r.status = 400 => (r.info = NoInfo /\ r.models = models)

\* one name outside the allowlist is cached and served, another is refused
C6_Witness ==
    /\ models[EngineOnlyModel] # 0
    /\ http_get_model_info(EngineOnlyModel, EngineOk, models, built).status = 200
    /\ http_get_model_info(UnknownModel, EngineOk, models, built).status = 400

\* C7: a text longer than max_text_length makes synthesize_speech raise
\* ValueError with the output directory and the model cache unchanged and no
\* engine built or called, and makes POST /tts answer 400 before it creates
\* its temporary directory.
C7_LongTextRejectedUntouched ==
    /\ \A req \in Requests, eng \in EngineBehaviours :
          Len(req.text) > max_text_length =>
              /\ Synth(req, eng).exc = "ValueError"
              /\ Synth(req, eng).outdir = outdir
              /\ Synth(req, eng).models = models
              /\ Synth(req, eng).built = built
              /\ Synth(req, eng).calls = 0
              /\ Synth(req, eng).constructs = 0
    /\ \A text \in Texts, m \in ModelNames, eng \in EngineBehaviours :
          Len(text) > max_text_length =>
              LET r == voice_clone_tts(text, m, Some(<<"en">>), eng, models, built) IN
              /\ r.status = 400
              /\ r.temp = "never_created"
              /\ r.models = models
              /\ r.calls = 0
              /\ r.constructs = 0

\* there are files and cached models for a rejected long text to leave alone
C7_Witness ==
    /\ outdir # {}
    /\ \E m \in ModelNames : models[m] = 0
    /\ \E m \in ModelNames : models[m] # 0
    /\ \E req \in Requests :
          /\ req.text = LongText
          /\ Synth(req, EngineOk).why = "text_too_long"

\* the age of a directory entry
Age(f) == now - f.ctime

\* C8 as stated: cleanup_old_files(0) leaves no regular file, not even one
\* created at the instant of the sweep.
C8_SweepZeroRemovesAll ==
    \A f \in cleanup_old_files(0, NoFault, outdir, now) : f.kind # "file"

\* C8 amended: cleanup_old_files(0) removes exactly the regular files whose
\* age is above zero and whose stat and delete succeed, so a file created at
\* the instant of the sweep stays; a sweep whose max_age_hours exceeds the
\* age of every file removes nothing.
C8_SweepZeroRemovesAged ==
    /\ \A fault \in Faults(outdir) : \A f \in outdir :
          f \notin cleanup_old_files(0, fault, outdir, now)
              <=> (f.kind = "file" /\ Age(f) > 0 /\ fault.name # f.name)
    /\ \A h \in 0..(MaxHours + 1), fault \in Faults(outdir) :
          (\A f \in outdir : f.kind = "file" => h * SecondsPerHour > Age(f))
              => cleanup_old_files(h, fault, outdir, now) = outdir

\* a file created this instant next to an older file and a directory
C8_Witness ==
    /\ \E f \in outdir : f.kind = "file" /\ Age(f) = 0
    /\ \E f \in outdir : f.kind = "file" /\ Age(f) > 0
    /\ \E f \in outdir : f.kind = "dir" /\ Age(f) > 0
    /\ cleanup_old_files(0, NoFault, outdir, now) # outdir

\* C9: when the stat or the delete of one file fails during a sweep, every
\* other regular file older than the threshold is gone after that sweep, in
\* the sweep on demand and in a pass of the timer (for the timer, among the
\* .wav files it looks at).
C9_FaultDoesNotAbortSweep ==
    /\ \A h \in Hours, fault \in Faults(outdir) : \A f \in outdir :
          (f.kind = "file" /\ f.name # fault.name /\ Age(f) > h * SecondsPerHour)
              => f \notin cleanup_old_files(h, fault, outdir, now)
    /\ \A fault \in Faults(outdir), before \in SUBSET {f.name : f \in outdir} :
          \A f \in outdir :
              ( /\ f.kind = "file"
                /\ EndsWithWav(f.name)
                /\ f.name # fault.name
                /\ Age(f) > TimerAge )
                  => f \notin cleanup_task(fault, before, outdir, now)

\* C10: a cached model keeps its handle through every call of the service
\* and every sweep, no further engine is built for it, and load_model
\* returns the cached handle without building one.
C10_CacheOnlyGrows ==
    /\ [][\A m \in ModelNames :
            models[m] # 0 => (models'[m] = models[m] /\ built'[m] = built[m])]_vars
    /\ [](\A m \in ModelNames, eng \in EngineBehaviours :
            models[m] # 0 =>
                /\ load_model(m, eng, models, built).exc = "none"
                /\ load_model(m, eng, models, built).tts = models[m]
                /\ load_model(m, eng, models, built).constructs = 0
                /\ load_model(m, eng, models, built).models = models)

\* both loadable models are cached, and requests and a sweep have come after
C10_Witness ==
    /\ models[default_model] # 0
    /\ models[EngineOnlyModel] # 0
    /\ now > 0
    /\ \E f \in outdir : Age(f) = 0

\* C2: whatever the interleaving, the engine writes each output file at most
\* once, and the threads that asked for the same file got the same path.
C2_OneSynthesisPerKey ==
    /\ \A n \in ConcNames : synth_calls[n] <= 1
    /\ \A p, q \in Threads :
          ( /\ pc[p] = "done" /\ pc[q] = "done"
            /\ call[p].op = "synthesize" /\ call[q].op = "synthesize"
            /\ OutputPath(call[p].req) = OutputPath(call[q].req)
            /\ got[p].exc = "none" /\ got[q].exc = "none" )
              => got[p].path = got[q].path

\* C3: whatever the interleaving, at most one engine is built per model
\* name, and the threads that loaded the same model got the same handle.
C3_OneLoadPerModel ==
    /\ \A m \in ModelNames : built[m] <= 1
    /\ \A p, q \in Threads :
          ( /\ pc[p] = "done" /\ pc[q] = "done"
            /\ call[p].op = "load_model" /\ call[q].op = "load_model"
            /\ call[p].model_name = call[q].model_name
            /\ got[p].exc = "none" /\ got[q].exc = "none" )
              => got[p].tts = got[q].tts

\* a name in upper case that indicates the cloning-capable architecture
FineTunedXtts == <<"my/", "XTTS", "_ft">>

CloningCapable == { default_model, FineTunedXtts }

ModelInfos == [is_multi_speaker : BOOLEAN, is_multi_lingual : BOOLEAN]

\* the engine call C11 prescribes; an argument is given when it is neither
\* None nor empty
C11_Prescribed(req, cloning, multi_speaker, multi_lingual) ==
    CASE Truthy(req.speaker_wav) /\ req.speaker_wav[1] \notin ExistingWavs ->
            [kind |-> "missing_wav", speaker_wav |-> None, speaker |-> None,
             language |-> None]
      [] Truthy(req.speaker_wav) /\ req.speaker_wav[1] \in ExistingWavs /\ cloning ->
            [kind |-> "tts_to_file", speaker_wav |-> req.speaker_wav, speaker |-> None,
             language |-> IF req.language \in {None, Some(<<>>)} THEN Some(<<"en">>)
                          ELSE req.language]
      [] Truthy(req.speaker_wav) /\ req.speaker_wav[1] \in ExistingWavs /\ ~cloning ->
            [kind |-> "tts_with_vc_to_file", speaker_wav |-> req.speaker_wav,
             speaker |-> None, language |-> None]
      [] ~Truthy(req.speaker_wav) /\ Truthy(req.speaker) /\ multi_speaker ->
            [kind |-> "tts_to_file", speaker_wav |-> None, speaker |-> req.speaker,
             language |-> req.language]
      [] ~Truthy(req.speaker_wav) /\ ~(Truthy(req.speaker) /\ multi_speaker) ->
            [kind |-> "tts_to_file", speaker_wav |-> None, speaker |-> None,
             language |-> IF multi_lingual /\ Truthy(req.language) THEN req.language
                          ELSE None]

\* C11: on a cache miss the engine call is chosen in priority order, for
\* every combination of speaker reference, speaker id and model capabilities:
\* a speaker reference means cloning (with the reference and the language)
\* for an xtts name and voice conversion otherwise, after the check that the
\* file exists; else a speaker id on a multi-speaker model means synthesis
\* with that id and the language; else plain synthesis, with the language
\* only for a multilingual model.  The call is made once.
C11_StrategyByPriority ==
    /\ \A req \in DispatchRequests, info \in ModelInfos :
          \A m \in DispatchModels \cup {FineTunedXtts} :
              Strategy(req, m, info) =
                  C11_Prescribed(req, m \in CloningCapable, info.is_multi_speaker,
                                 info.is_multi_lingual)
    /\ \A req \in DispatchRequests, eng \in EngineBehaviours :
          LET r == Synth(req, eng)
              m == ResolvedModel(req.model_name)
          IN  r.why \notin {"cache_hit", "load_failed"} =>
                  /\ r.strategy = C11_Prescribed(req, m \in CloningCapable, HasSpeakers(m),
                                                 HasLanguages(m))
                  /\ r.calls = IF r.strategy.kind = "missing_wav" THEN 0 ELSE 1

\* an artifact made with a speaker id is cached, and of the requests that miss
\* one takes the voice conversion, one the cloning, one the speaker id branch
C11_Witness ==
    /\ now > 0
    /\ \E req \in DispatchCalls :
          Truthy(req.speaker) /\ Synth(req, EngineOk).why = "cache_hit"
    /\ \E req \in DispatchRequests :
          /\ Synth(req, EngineOk).why = "synthesized"
          /\ Synth(req, EngineOk).strategy.kind = "tts_with_vc_to_file"
    /\ \E req \in DispatchRequests :
          /\ Synth(req, EngineOk).why = "synthesized"
          /\ Synth(req, EngineOk).strategy.speaker_wav # None
          /\ Synth(req, EngineOk).strategy.language = Some(<<"en">>)
    /\ \E req \in DispatchRequests :
          /\ Synth(req, EngineOk).why = "synthesized"
          /\ Synth(req, EngineOk).strategy.speaker # None

\* C12: a request that failed leaves nothing behind.  Every regular file of
\* the output directory is the artifact of a request that returned its path,
\* a failing synthesize_speech leaves the output directory as it found it,
\* and a failing POST /tts has removed the temporary directory it created.
C12_FailureLeavesNoFile ==
    /\ \A f \in outdir : f.kind = "file" => \E h \in served : h.path = f.name
    /\ \A req \in SweepRequests, eng \in EngineBehaviours :
          Synth(req, eng).exc # "none" =>
              /\ Synth(req, eng).outdir = outdir
              /\ ~PathExists(Synth(req, eng).outdir, OutputPath(req))
    /\ \A text \in Texts, m \in ModelNames, eng \in EngineBehaviours :
          LET r == voice_clone_tts(text, m, Some(<<"en">>), eng, models, built) IN
          r.status # 200 => r.temp \in {"never_created", "removed"}

\* C13: a pass of the background timer in which no stat and no delete fails
\* removes every regular file older than its threshold, whatever its name:
\* it leaves the directory that cleanup_old_files leaves when called with
\* the same threshold in the same state.
C13_TimerSweepsLikeOnDemand ==
    /\ \A f \in outdir :
          (f.kind = "file" /\ Age(f) > TimerAge)
              => f \notin cleanup_task(NoFault, {}, outdir, now)
    /\ cleanup_task(NoFault, {}, outdir, now)
          = cleanup_old_files(TimerAge \div SecondsPerHour, NoFault, outdir, now)

\* C14: the cleanup thread never terminates.  A pass always ends in the next
\* sleep, also when the listing, a stat or a delete failed in it, and under
\* fair scheduling the thread sleeps and sweeps again and again.
C14_TimerRunsForever ==
    /\ [](timer.at \in {"sleeping", "sweeping"})
    /\ [][timer.at = "sweeping" => timer'.at = "sleeping"]_timer
    /\ []<>(timer.at = "sleeping")
    /\ []<>(timer.at = "sweeping")

\* the last pass raised, left an old file behind, and the thread sleeps again
C14_Witness ==
    /\ timer = [at |-> "sleeping", last |-> "raised"]
    /\ \E f \in outdir : f.kind = "file" /\ EndsWithWav(f.name) /\ Age(f) > TimerAge

\* the inputs of a request that affect the audio
AudioInputs(req) ==
    <<req.text, ResolvedModel(req.model_name), req.speaker, req.language, req.speaker_wav>>

\* C15: when a request synthesizes an artifact and a request after it gets
\* that artifact as a cache hit, the two agree on text, model, speaker id,
\* language and speaker reference; requests that differ in one of these have
\* different output paths.
C15_CacheHitSameInputs ==
    /\ \A r1 \in Requests, r2 \in Requests :
          LET a == Synth(r1, EngineOk)
              b == synthesize_speech(r2, EngineOk, a.outdir, a.models, a.built, now)
          IN  (a.why = "synthesized" /\ b.why = "cache_hit" /\ b.path = a.path)
                  => AudioInputs(r1) = AudioInputs(r2)
    /\ \A r1 \in Requests, r2 \in Requests :
          AudioInputs(r1) # AudioInputs(r2) => OutputPath(r1) # OutputPath(r2)

\* thread p is inside load_model
LoadInProgress(p) ==
    pc[p] \in {"load_check", "load_patch", "load_build", "load_restore", "load_store",
               "load_raise", "load_return"}

\* C16: whatever the interleaving and whether the loads succeed or fail,
\* when no thread is inside load_model, torch.load and warnings.warn are the
\* original functions: no patch wraps them.
C16_PatchesUndone ==
    (\A p \in Threads : ~LoadInProgress(p)) => torch_load = <<>>

====
